---- MODULE Spec2Model ----
(***************************************************************************)
(* Face-Attendance-System: the liveness / anti-spoofing module             *)
(* (src/unnamed/part_001, lines 179-356), the notifications module         *)
(* (src/unnamed/part_001, lines 1-177), the register and recognise flows   *)
(* of the attendance page (src/app.js) and the auth helpers                *)
(* (src/unnamed/part_000).                                                 *)
(*                                                                         *)
(* JavaScript runs one task at a time.  Every action below is one run-to-  *)
(* completion piece of a handler: from its entry (or from the await it was *)
(* suspended at) to its next await / return.                               *)
(***************************************************************************)
EXTENDS Integers, Sequences, FiniteSets, TLC

(***************************************************************************)
(* Bounds of the model                                                     *)
(***************************************************************************)
\* number of verifyLiveness calls made in one run
MaxSessions == 2
\* a verifyLiveness call arrives while another session is running only when
\* that session is within its last OverlapWindow frames
OverlapWindow == 1
\* the subject stops closing the eyes once blinkCount has reached MaxBlinks
MaxBlinks == 2

(***************************************************************************)
(* Program constants                                                       *)
(***************************************************************************)
maxFrames == 300
\* checkAndNotifyLowAttendance: "const THRESHOLD = 75"
THRESHOLD == 75
requiredBlinks == 2
\* "frameCount % 5 === 0"
DebounceStride == 5
\* "movement > 10"
HeadMovementThreshold == 10
\* "movement > 5 && movement < 50"
MinMovement == 5
MaxMovement == 50

Sessions == 1..MaxSessions

\* JavaScript null
Null == <<>>

(***************************************************************************)
(* Geometry.  A face centre is box.x + box.width / 2; it is kept in        *)
(* half-pixels (2 * box.x + box.width) so that it is an integer for every  *)
(* integer box.  Math.sqrt is monotonic and exact on perfect squares, so   *)
(* "sqrt(dx^2 + dy^2) > t" is "dx^2 + dy^2 > t^2".                         *)
(***************************************************************************)
Box(x, y, w, h) == [x |-> x, y |-> y, width |-> w, height |-> h]

BoxA == Box(100, 100, 200, 200)
\* BoxA moved by exactly 10 px
BoxB == Box(110, 100, 200, 200)
\* BoxA moved by 30 px, BoxB moved by 20 px
BoxC == Box(130, 100, 200, 200)
\* BoxC moved by exactly 10 px
BoxD == Box(140, 100, 200, 200)

Boxes == {BoxA, BoxC}

CurrentPosition(box) == <<2 * box.x + box.width, 2 * box.y + box.height>>

\* squared distance of two centres, in half-pixels squared
Movement2(p, q) == (p[1] - q[1]) * (p[1] - q[1]) + (p[2] - q[2]) * (p[2] - q[2])

HeadMoved(p, q) == Movement2(p, q) > 4 * HeadMovementThreshold * HeadMovementThreshold

(***************************************************************************)
(* Eye landmarks and detectBlink.  An eye is a sequence of points <<x, y>>,*)
(* JavaScript index i being TLA+ index i + 1.  The landmark sets used have *)
(* axis-aligned point pairs, so every distance is a perfect square root.   *)
(***************************************************************************)
Sqrt(n) == CHOOSE r \in 0..n : r * r = n

PointDist(p, q) == Sqrt((p[1] - q[1]) * (p[1] - q[1]) + (p[2] - q[2]) * (p[2] - q[2]))

\* an eye of width w whose lids are v1 and v2 apart
Eye(w, v1, v2) == << <<0, 0>>, <<2, v1>>, <<4, v2>>, <<w, 0>>, <<4, 0>>, <<2, 0>> >>

\* EAR 4/12 on both eyes: open
OpenEyes == [left |-> Eye(6, 2, 2), right |-> Eye(6, 2, 2)]
\* EAR 3/12 = 0.25 exactly: not below the threshold
HalfEyes == [left |-> Eye(6, 2, 1), right |-> Eye(6, 1, 2)]
\* EAR 0: closed
ClosedEyes == [left |-> Eye(6, 0, 0), right |-> Eye(6, 0, 0)]
\* an eye with fewer than 6 points: eyePoints[5] is undefined
ShortEyes == [left |-> SubSeq(Eye(6, 0, 0), 1, 4), right |-> Eye(6, 0, 0)]

\* a detection without landmarks has landmarks = Null
LandmarkSets == {OpenEyes, HalfEyes, ClosedEyes, ShortEyes, Null}

\* numerator and denominator of (vertical1 + vertical2) / (2 * horizontal)
calculateEAR(eyePoints) ==
    [num |-> PointDist(eyePoints[2], eyePoints[6]) + PointDist(eyePoints[3], eyePoints[5]),
     den |-> 2 * PointDist(eyePoints[1], eyePoints[4])]

\* avgEAR < 0.25, avgEAR = (leftEAR + rightEAR) / 2.  A zero denominator
\* gives Infinity or NaN, and neither is < 0.25.
BelowBlinkThreshold(l, r) ==
    /\ l.den > 0
    /\ r.den > 0
    /\ 4 * (l.num * r.den + r.num * l.den) < 2 * l.den * r.den

detectBlink(landmarks) ==
    IF landmarks = Null THEN FALSE
    ELSE IF Len(landmarks.left) < 6 \/ Len(landmarks.right) < 6
         \* TypeError reading a missing point, caught: return false
         THEN FALSE
         ELSE BelowBlinkThreshold(calculateEAR(landmarks.left),
                                  calculateEAR(landmarks.right))

(***************************************************************************)
(* What one call of faceapi.detectSingleFace(...).withFaceLandmarks() can  *)
(* give: a detection, undefined (no face), or an exception.                *)
(***************************************************************************)
NoFace == [kind |-> "none", box |-> BoxA, landmarks |-> Null]
Throws == [kind |-> "throw", box |-> BoxA, landmarks |-> Null]
Face(box, lm) == [kind |-> "face", box |-> box, landmarks |-> lm]

Detections == {NoFace, Throws} \cup {Face(b, lm) : b \in Boxes, lm \in LandmarkSets}

(***************************************************************************)
(* The attendance page (src/app.js).  A face descriptor is modelled as one *)
(* integer, in tenths: the Euclidean distance of two descriptors is the    *)
(* absolute difference, and the matcher's threshold 0.6 is 6.              *)
(***************************************************************************)
\* number of clicks on the recognise button in one run
MaxClicks == 1
\* "new faceapi.FaceMatcher(labeledFaceDescriptors, 0.6)", in tenths
DistanceThreshold == 6

Clicks == 1..MaxClicks
\* what the camera shows at a click
QueryDescriptors == {0, 3, 7, 20}

\* number of clicks on the register button in one run
MaxRegisters == 1
Registers == 1..MaxRegisters
\* what the name field holds at a click on register, and what the camera
\* shows then
RegisterNames == {"", "carol"}
RegisterDescriptors == {3}

Student(n, d) == [name |-> n, face_descriptor |-> d]
\* the students table when the page is opened: empty, one student, or a
\* student registered twice
StudentTables == {<<>>, <<Student("alice", 0)>>,
                  <<Student("bob", 4), Student("bob", 10)>>}

VARIABLES
    \* module-level state of the anti-spoofing module
    blinkCount, headMovementDetected, lastFacePosition, blinkDetectionActive,
    \* per verifyLiveness call: position of detectLiveness, its closure's
    \* frameCount, and the value the promise was resolved with
    pc, frameCount, verdict,
    \* the sessions whose detector call is pending, and those whose
    \* requestAnimationFrame callback is scheduled, oldest first: the detector
    \* answers in the order it was called, the browser runs the callbacks in
    \* the order they were registered
    detectorQueue, animationFrameQueue,
    \* the detector has stopped answering (camera loss)
    cameraLost,
    \* history: stopLivenessDetection was called during the session; the
    \* session has folded in a frame with a detection; the counters at the
    \* first stop request made during the session
    stopped, seen, stopSnap,
    \* history: some verifyLiveness promise resolved with success = true
    livenessPassed

VARIABLES
    \* the database: the students and the attendance tables
    students, attendance,
    \* start(): position, and the rows its select returned
    startPc, startRows,
    \* the in-memory gallery of the page
    labeledFaceDescriptors,
    \* per click on recognise: position of the handler, and the label it is
    \* marking attendance for
    recognizePc, recognizeLabel,
    \* per click on register: position of the handler, the row it inserts,
    \* and the rows its reload select returned
    registerPc, registerRow, registerRows,
    \* per click on recognise: the alert the handler has shown; history:
    \* start() had not finished when the click was made
    recognizeAlert, clickedEarly,
    \* history: the names whose registration insert succeeded; a load has
    \* been assigned to the gallery; a select has failed
    inserted, galleryAssigned, selectFailed

VARIABLES
    \* history: the last two calls of detectSpoofing, newest first, each with
    \* its arguments, the lastFacePosition it found and the verdict it returned
    spoofCalls

\* the variables of the register handler and the history of the page
registerVars == <<registerPc, registerRow, registerRows, inserted>>

appVars == <<students, attendance, startPc, startRows, labeledFaceDescriptors,
             recognizePc, recognizeLabel, registerVars, recognizeAlert,
             clickedEarly, galleryAssigned, selectFailed>>

livenessVars == <<blinkCount, headMovementDetected, lastFacePosition,
                  blinkDetectionActive, pc, frameCount, verdict,
                  detectorQueue, animationFrameQueue, cameraLost, stopped,
                  seen, stopSnap, livenessPassed>>

VARIABLES
    \* the Supabase auth session of the browser (Null: signed out), and the
    \* page address a redirect has set (Null: none)
    session, location,
    \* one call of requireAuth / isAdmin / isStaff / isStudent: its position,
    \* its function and argument, the session getUserRole read, and the value
    \* it returned (in a one-element sequence)
    authPc, authCall, authSession, authResult,
    \* history: what getSession and the profiles query answered to the call
    authSeen

authVars == <<session, location, authPc, authCall, authSession, authResult, authSeen>>

VARIABLES
    \* the notifications table
    notifications,
    \* one call of checkAndNotifyLowAttendance: its position, its arguments
    \* and the value it returned (in a one-element sequence)
    notifyPc, notifyCall, notifyResult,
    \* history: the inserts the call has sent, with their outcomes
    notifyAttempts

notificationVars == <<notifications, notifyPc, notifyCall, notifyResult, notifyAttempts>>

\* what the other modules of the page hold: none of it is touched by the
\* liveness session or by the recognise flow
otherVars == <<spoofCalls, authVars, notificationVars>>

vars == <<livenessVars, appVars, otherVars>>

Unresolved(s) == pc[s] \in {"awaiting", "scheduled"}

\* a promise was resolved in the current task: its continuation is a
\* microtask, run before any other task
MicrotaskPending == \E s \in Sessions : pc[s] = "resolved"

Counters == <<blinkCount, headMovementDetected, lastFacePosition>>

LivenessInit ==
    /\ blinkCount = 0
    /\ headMovementDetected = FALSE
    /\ lastFacePosition = Null
    /\ blinkDetectionActive = FALSE
    /\ pc = [s \in Sessions |-> "idle"]
    /\ frameCount = [s \in Sessions |-> 0]
    /\ verdict = [s \in Sessions |-> Null]
    /\ detectorQueue = <<>>
    /\ animationFrameQueue = <<>>
    /\ cameraLost = FALSE
    /\ stopped = [s \in Sessions |-> FALSE]
    /\ seen = [s \in Sessions |-> FALSE]
    /\ stopSnap = [s \in Sessions |-> Null]
    /\ livenessPassed = FALSE

\* the page before start() has run, over a given students table
AppInitWith(table) ==
    /\ students = table
    /\ attendance = <<>>
    /\ startPc = "setup"
    /\ startRows = <<>>
    /\ labeledFaceDescriptors = <<>>
    /\ recognizePc = [c \in Clicks |-> "idle"]
    /\ recognizeLabel = [c \in Clicks |-> ""]
    /\ registerPc = [r \in Registers |-> "idle"]
    /\ registerRow = [r \in Registers |-> Null]
    /\ registerRows = [r \in Registers |-> <<>>]
    /\ recognizeAlert = [c \in Clicks |-> ""]
    /\ clickedEarly = [c \in Clicks |-> FALSE]
    /\ inserted = {}
    /\ galleryAssigned = FALSE
    /\ selectFailed = FALSE

\* no call of detectSpoofing has been made
SpoofInit == spoofCalls = <<>>

\* an answer of getSession or of the profiles query, as the history keeps
\* it: not asked yet, an exception, nothing, or a role ("" for no role)
NotRead == [kind |-> "unread", role |-> ""]

\* no call of the auth helpers has been made; sess is the browser's session
AuthInitWith(sess) ==
    /\ session = sess
    /\ location = Null
    /\ authPc = "idle"
    /\ authCall = Null
    /\ authSession = Null
    /\ authResult = Null
    /\ authSeen = [session1 |-> NotRead, session2 |-> NotRead, profile |-> NotRead]

\* no call of checkAndNotifyLowAttendance has been made
NotificationInit ==
    /\ notifications = <<>>
    /\ notifyPc = "idle"
    /\ notifyCall = Null
    /\ notifyResult = Null
    /\ notifyAttempts = <<>>

OtherInit == SpoofInit /\ AuthInitWith(Null) /\ NotificationInit

Init == LivenessInit /\ AppInitWith(<<>>) /\ OtherInit

(***************************************************************************)
(* verifyLiveness(video, faceapi, onProgress), lines 286-293 and 347: the  *)
(* promise executor resets the module-level counters, sets the active flag *)
(* and calls detectLiveness() synchronously; that first call passes the    *)
(* check of line 296 (the flag was just set, frameCount is 0), increments  *)
(* frameCount and suspends at the await of line 308.                       *)
(***************************************************************************)
verifyLiveness(s) ==
    /\ pc[s] = "idle"
    /\ \A t \in Sessions : t < s => pc[t] # "idle"
    /\ \A t \in Sessions :
          Unresolved(t) => t = s - 1 /\ frameCount[t] >= maxFrames - OverlapWindow
    /\ ~MicrotaskPending
    /\ blinkCount' = 0
    /\ headMovementDetected' = FALSE
    /\ blinkDetectionActive' = TRUE
    /\ frameCount' = [frameCount EXCEPT ![s] = 1]
    /\ pc' = [pc EXCEPT ![s] = "awaiting"]
    /\ detectorQueue' = Append(detectorQueue, s)
    /\ UNCHANGED <<lastFacePosition, verdict, animationFrameQueue, cameraLost,
                   stopped, seen, stopSnap, livenessPassed>>
    /\ UNCHANGED <<appVars, otherVars>>

LivenessSuccessMut(blinks, moved) == blinks >= requiredBlinks \/ moved
LivenessSuccess(blinks, moved) == blinks >= requiredBlinks /\ moved

(***************************************************************************)
(* detectLiveness as the requestAnimationFrame callback, lines 295-306:    *)
(* either resolve the promise, or count the frame and start the detector.  *)
(***************************************************************************)
detectLiveness(s) ==
    /\ pc[s] = "scheduled"
    /\ Head(animationFrameQueue) = s
    /\ ~MicrotaskPending
    /\ animationFrameQueue' = Tail(animationFrameQueue)
    /\ IF ~blinkDetectionActive \/ frameCount[s] >= maxFrames
       THEN /\ blinkDetectionActive' = FALSE
            /\ verdict' = [verdict EXCEPT ![s] =
                  <<[success |-> LivenessSuccess(blinkCount, headMovementDetected),
                     blinks |-> blinkCount,
                     headMovement |-> headMovementDetected]>>]
            /\ pc' = [pc EXCEPT ![s] = "resolved"]
            /\ UNCHANGED <<frameCount, detectorQueue>>
       ELSE /\ frameCount' = [frameCount EXCEPT ![s] = @ + 1]
            /\ pc' = [pc EXCEPT ![s] = "awaiting"]
            /\ detectorQueue' = Append(detectorQueue, s)
            /\ UNCHANGED <<blinkDetectionActive, verdict>>
    /\ UNCHANGED <<blinkCount, headMovementDetected, lastFacePosition,
                   cameraLost, stopped, seen, stopSnap, livenessPassed>>
    /\ UNCHANGED <<appVars, otherVars>>

DebouncedMut(n) == n % 10 = 0
Debounced(n) == n % DebounceStride = 0

(***************************************************************************)
(* detectLiveness after the await, lines 308-344: fold the detection in    *)
(* and schedule the next callback.                                         *)
(***************************************************************************)
\* the onProgress argument of verifyLiveness: absent, or a callback that
\* returns, or one that throws
OnProgress == {"absent", "returns", "throws"}

\* lines 323-338: the head-movement check against the last face centre
TrackHeadMovement(box) ==
    /\ headMovementDetected' =
          IF lastFacePosition # Null
             /\ HeadMoved(CurrentPosition(box), lastFacePosition)
          THEN TRUE ELSE headMovementDetected
    /\ lastFacePosition' = CurrentPosition(box)

\* lines 312-339.  An exception of onProgress leaves the try block before
\* the head-movement check and is caught at line 340.
FoldDetectionMut(s, det) ==
    IF det.kind = "face"
    THEN /\ seen' = [seen EXCEPT ![s] = TRUE]
         /\ IF detectBlink(det.landmarks) /\ Debounced(frameCount[s])
            THEN /\ blinkCount' = blinkCount + 1
                 /\ \E onProgress \in OnProgress :
                       IF onProgress = "throws"
                       THEN UNCHANGED <<headMovementDetected, lastFacePosition>>
                       ELSE TrackHeadMovement(det.box)
            ELSE /\ UNCHANGED blinkCount
                 /\ TrackHeadMovement(det.box)
    ELSE /\ lastFacePosition' = Null
         /\ UNCHANGED <<blinkCount, headMovementDetected, seen>>
FoldDetection(s, det) ==
    IF det.kind = "face"
    THEN /\ seen' = [seen EXCEPT ![s] = TRUE]
         /\ IF detectBlink(det.landmarks) /\ Debounced(frameCount[s])
            THEN /\ blinkCount' = blinkCount + 1
                 /\ \E onProgress \in OnProgress :
                       IF onProgress = "throws"
                       THEN UNCHANGED <<headMovementDetected, lastFacePosition>>
                       ELSE TrackHeadMovement(det.box)
            ELSE /\ UNCHANGED blinkCount
                 /\ TrackHeadMovement(det.box)
    ELSE UNCHANGED <<blinkCount, headMovementDetected, lastFacePosition, seen>>

DetectionReturns(s, det) ==
    /\ pc[s] = "awaiting"
    /\ Head(detectorQueue) = s
    /\ ~cameraLost
    /\ ~MicrotaskPending
    /\ FoldDetection(s, det)
    /\ pc' = [pc EXCEPT ![s] = "scheduled"]
    /\ detectorQueue' = Tail(detectorQueue)
    /\ animationFrameQueue' = Append(animationFrameQueue, s)
    /\ UNCHANGED <<blinkDetectionActive, frameCount, verdict, cameraLost,
                   stopped, stopSnap, livenessPassed>>
    /\ UNCHANGED <<appVars, otherVars>>

(***************************************************************************)
(* The continuation of the promise verifyLiveness returned: the caller has *)
(* the verdict, the closure (frameCount) is garbage.                       *)
(***************************************************************************)
PromiseSettles(s) ==
    /\ pc[s] = "resolved"
    /\ pc' = [pc EXCEPT ![s] = "done"]
    /\ livenessPassed' = (livenessPassed \/ verdict[s][1].success)
    /\ verdict' = [verdict EXCEPT ![s] = Null]
    /\ frameCount' = [frameCount EXCEPT ![s] = 0]
    /\ stopped' = [stopped EXCEPT ![s] = FALSE]
    /\ seen' = [seen EXCEPT ![s] = FALSE]
    /\ stopSnap' = [stopSnap EXCEPT ![s] = Null]
    /\ UNCHANGED <<blinkCount, headMovementDetected, lastFacePosition,
                   blinkDetectionActive, detectorQueue, animationFrameQueue,
                   cameraLost>>
    /\ UNCHANGED <<appVars, otherVars>>

(***************************************************************************)
(* stopLivenessDetection(), lines 354-356.                                 *)
(***************************************************************************)
stopLivenessDetection ==
    /\ ~MicrotaskPending
    /\ blinkDetectionActive' = FALSE
    /\ stopped' = [s \in Sessions |-> stopped[s] \/ Unresolved(s)]
    /\ stopSnap' = [s \in Sessions |->
                        IF Unresolved(s) /\ stopSnap[s] = Null
                        THEN <<Counters>> ELSE stopSnap[s]]
    /\ UNCHANGED <<blinkCount, headMovementDetected, lastFacePosition, pc,
                   frameCount, verdict, detectorQueue, animationFrameQueue,
                   cameraLost, seen, livenessPassed>>
    /\ UNCHANGED <<appVars, otherVars>>

(***************************************************************************)
(* detectSpoofing(detection, video), lines 194-238.  faceRatio is kept as  *)
(* the fraction faceSize / videoArea; positionStability is in tenths, and  *)
(* spoofScore in tenths, so that finalScore = spoofScore * (1 -            *)
(* positionStability * 0.3) is spoofScore * (100 - 3 * positionStability)  *)
(* thousandths.                                                            *)
(***************************************************************************)
Video(w, h) == [videoWidth |-> w, videoHeight |-> h]

\* lines 197-202
FaceRatio(box, video) ==
    [num |-> box.width * box.height, den |-> video.videoWidth * video.videoHeight]

\* "ratio > n / d" and "ratio < n / d" as JavaScript computes them: a
\* division by zero gives Infinity, and 0 / 0 gives NaN, which compares false
RatioAbove(ratio, n, d) ==
    IF ratio.den = 0 THEN ratio.num > 0 ELSE ratio.num * d > n * ratio.den

RatioBelow(ratio, n, d) == ratio.den # 0 /\ ratio.num * d < n * ratio.den

\* line 203: faceRatio > 0.05 && faceRatio < 0.4
SizeConsistencyMut(box, video) ==
    /\ ~RatioBelow(FaceRatio(box, video), 5, 100)
    /\ RatioBelow(FaceRatio(box, video), 4, 10)
SizeConsistency(box, video) ==
    /\ RatioAbove(FaceRatio(box, video), 5, 100)
    /\ RatioBelow(FaceRatio(box, video), 4, 10)

\* lines 214-222, in tenths: 1 without a last position, else 0.8 for a
\* movement > 5 and < 50, else 0.3
PositionStabilityMut(box, last) ==
    IF last = Null THEN 10
    ELSE IF /\ Movement2(CurrentPosition(box), last) >= 4 * MinMovement * MinMovement
            /\ Movement2(CurrentPosition(box), last) < 4 * MaxMovement * MaxMovement
         THEN 8 ELSE 3
PositionStability(box, last) ==
    IF last = Null THEN 10
    ELSE IF /\ Movement2(CurrentPosition(box), last) > 4 * MinMovement * MinMovement
            /\ Movement2(CurrentPosition(box), last) < 4 * MaxMovement * MaxMovement
         THEN 8 ELSE 3

\* the value detectSpoofing returns when lastFacePosition is last; confidence
\* is in thousandths
SpoofVerdict(detection, video, last) ==
    IF detection.kind # "face" \/ video = Null
    THEN [isSpoofed |-> FALSE, confidence |-> 0, details |-> Null]
    ELSE LET sizeConsistency == SizeConsistency(detection.box, video)
             positionStability == PositionStability(detection.box, last)
             spoofScore == IF sizeConsistency THEN 2 ELSE 6
             finalScore == spoofScore * (100 - positionStability * 3)
         IN  [isSpoofed |-> finalScore > 500,
              confidence |-> finalScore,
              details |-> [sizeConsistency |-> sizeConsistency,
                           positionStability |-> positionStability]]

\* the change of state: line 224 records the face centre in the shared
\* lastFacePosition, unless line 195 returned early
detectSpoofing(detection, video) ==
    /\ ~MicrotaskPending
    /\ lastFacePosition' = IF detection.kind = "face" /\ video # Null
                           THEN CurrentPosition(detection.box)
                           ELSE lastFacePosition
    /\ UNCHANGED <<blinkCount, headMovementDetected, blinkDetectionActive, pc,
                   frameCount, verdict, detectorQueue, animationFrameQueue,
                   cameraLost, stopped, seen, stopSnap, livenessPassed>>
    /\ UNCHANGED appVars

\* the video element of the page, app.js lines 12-14
PageVideo == Video(720, 560)

\* the detections the subject offers: the eyes stay open once blinkCount has
\* reached MaxBlinks
Offered == {det \in Detections : detectBlink(det.landmarks) => blinkCount < MaxBlinks}

Next ==
    \/ \E s \in Sessions : verifyLiveness(s)
    \/ \E s \in Sessions : detectLiveness(s)
    \/ \E s \in Sessions, det \in Offered : DetectionReturns(s, det)
    \/ \E s \in Sessions : PromiseSettles(s)
    \/ stopLivenessDetection
    \/ \E det \in {NoFace} \cup {Face(b, OpenEyes) : b \in Boxes} :
          detectSpoofing(det, PageVideo) /\ UNCHANGED otherVars

Spec == Init /\ [][Next]_vars

(***************************************************************************)
(* The attendance page, src/app.js.                                        *)
(***************************************************************************)
\* loadLabeledImages, lines 53-58: one labelled entry per row, each with the
\* single descriptor of the row
LabeledImages(rows) ==
    [i \in 1..Len(rows) |->
        [label |-> rows[i].name, descriptors |-> <<rows[i].face_descriptor>>]]

\* start(), lines 61-69: the camera and the models are set up (a failure of
\* either is logged and start goes on), then loadLabeledImages sends its
\* select
StartSetupDone ==
    /\ startPc = "setup"
    /\ startPc' = "querying"
    /\ UNCHANGED <<students, attendance, startRows, labeledFaceDescriptors,
                   recognizePc, recognizeLabel, registerVars, recognizeAlert,
                   clickedEarly, galleryAssigned, selectFailed>>
    /\ UNCHANGED <<livenessVars, otherVars>>

\* the database answers the select of line 44: the rows, or an error, for
\* which loadLabeledImages returns []
StartSelectExecutes(ok) ==
    /\ startPc = "querying"
    /\ startPc' = "fetched"
    /\ startRows' = IF ok THEN students ELSE <<>>
    /\ selectFailed' = (selectFailed \/ ~ok)
    /\ UNCHANGED <<students, attendance, labeledFaceDescriptors, recognizePc,
                   recognizeLabel, registerVars, recognizeAlert, clickedEarly, galleryAssigned>>
    /\ UNCHANGED <<livenessVars, otherVars>>

\* line 66: labeledFaceDescriptors = await loadLabeledImages()
StartSelectReturns ==
    /\ startPc = "fetched"
    /\ startPc' = "ready"
    /\ labeledFaceDescriptors' = LabeledImages(startRows)
    /\ galleryAssigned' = TRUE
    /\ UNCHANGED <<students, attendance, startRows, recognizePc, recognizeLabel,
                   registerVars, recognizeAlert, clickedEarly, selectFailed>>
    /\ UNCHANGED <<livenessVars, otherVars>>

Distance(a, b) == IF a >= b THEN a - b ELSE b - a

\* faceapi.FaceMatcher.matchDescriptor: the entry of least (mean) distance,
\* reduce((best, curr) => best.distance < curr.distance ? best : curr)
RECURSIVE matchDescriptor(_, _)
matchDescriptor(gallery, query) ==
    LET last == gallery[Len(gallery)]
        curr == [label |-> last.label, distance |-> Distance(query, last.descriptors[1])]
    IN  IF Len(gallery) = 1 THEN curr
        ELSE LET best == matchDescriptor(SubSeq(gallery, 1, Len(gallery) - 1), query)
             IN  IF best.distance < curr.distance THEN best ELSE curr

\* faceapi.FaceMatcher.findBestMatch with the threshold of line 122
findBestMatch(gallery, query) ==
    LET best == matchDescriptor(gallery, query)
    IN  IF best.distance < DistanceThreshold THEN best
        ELSE [label |-> "unknown", distance |-> best.distance]

\* the click handler of recognise, lines 114-115: it awaits detectFace()
RecognizeClick(c) ==
    /\ recognizePc[c] = "idle"
    /\ \A d \in Clicks : d < c => recognizePc[d] # "idle"
    /\ recognizePc' = [recognizePc EXCEPT ![c] = "detecting"]
    /\ clickedEarly' = [clickedEarly EXCEPT ![c] = startPc # "ready"]
    /\ UNCHANGED <<students, attendance, startPc, startRows,
                   labeledFaceDescriptors, recognizeLabel, registerVars,
                   recognizeAlert, galleryAssigned, selectFailed>>
    /\ UNCHANGED <<livenessVars, otherVars>>

\* lines 115-131, what the handler does with the answer of detectFace over
\* the gallery of that moment: the alert it shows and the label it marks.
\* new faceapi.FaceMatcher([]) throws ("expected atleast one input").
RecognizeOutcomeUnguarded(gallery, faceDescriptor) ==
    IF faceDescriptor = Null THEN [alert |-> "no face detected", label |-> ""]
    ELSE IF Len(gallery) = 0 THEN [alert |-> "exception", label |-> ""]
    ELSE IF findBestMatch(gallery, faceDescriptor[1]).label # "unknown"
         THEN [alert |-> "recognized",
               label |-> findBestMatch(gallery, faceDescriptor[1]).label]
         ELSE [alert |-> "not recognized", label |-> ""]
RecognizeOutcomeUnchecked(gallery, faceDescriptor) ==
    IF faceDescriptor = Null THEN [alert |-> "no face detected", label |-> ""]
    ELSE IF Len(gallery) = 0 THEN [alert |-> "no registered faces", label |-> ""]
    ELSE [alert |-> "recognized",
          label |-> findBestMatch(gallery, faceDescriptor[1]).label]
RecognizeOutcome(gallery, faceDescriptor) ==
    IF faceDescriptor = Null THEN [alert |-> "no face detected", label |-> ""]
    ELSE IF Len(gallery) = 0 THEN [alert |-> "no registered faces", label |-> ""]
    ELSE IF findBestMatch(gallery, faceDescriptor[1]).label # "unknown"
         THEN [alert |-> "recognized",
               label |-> findBestMatch(gallery, faceDescriptor[1]).label]
         ELSE [alert |-> "not recognized", label |-> ""]

\* detectFace answers (lines 104-110) with a descriptor <<d>> or with null,
\* and the handler goes on to line 126, where it awaits the insert of
\* markAttendance, or returns, or ends with an exception
DetectFaceReturns(c, faceDescriptor) ==
    /\ recognizePc[c] = "detecting"
    /\ LET outcome == RecognizeOutcome(labeledFaceDescriptors, faceDescriptor)
       IN  /\ recognizePc' = [recognizePc EXCEPT ![c] =
                 IF outcome.alert = "recognized" THEN "marking"
                 ELSE IF outcome.alert = "exception" THEN "failed" ELSE "done"]
           /\ recognizeLabel' = [recognizeLabel EXCEPT ![c] =
                 IF outcome.alert = "recognized" THEN outcome.label ELSE @]
           /\ recognizeAlert' = [recognizeAlert EXCEPT ![c] = outcome.alert]
    /\ UNCHANGED <<students, attendance, startPc, startRows,
                   labeledFaceDescriptors, registerVars, clickedEarly,
                   galleryAssigned, selectFailed>>
    /\ UNCHANGED <<livenessVars, otherVars>>

\* detectFace throws (the models are not loaded, line 103): the handler ends
\* with that exception
DetectFaceThrows(c) ==
    /\ recognizePc[c] = "detecting"
    /\ recognizePc' = [recognizePc EXCEPT ![c] = "failed"]
    /\ recognizeAlert' = [recognizeAlert EXCEPT ![c] = "exception"]
    /\ UNCHANGED <<students, attendance, startPc, startRows,
                   labeledFaceDescriptors, recognizeLabel, registerVars,
                   clickedEarly, galleryAssigned, selectFailed>>
    /\ UNCHANGED <<livenessVars, otherVars>>

\* markAttendance, lines 135-147: the insert succeeds and the row is there,
\* or it fails and the error is logged
markAttendance(c, ok) ==
    /\ recognizePc[c] = "marking"
    /\ attendance' = IF ok THEN Append(attendance, [student_name |-> recognizeLabel[c]])
                     ELSE attendance
    /\ recognizePc' = [recognizePc EXCEPT ![c] = "done"]
    /\ UNCHANGED <<students, startPc, startRows, labeledFaceDescriptors,
                   recognizeLabel, registerVars, recognizeAlert, clickedEarly,
                   galleryAssigned, selectFailed>>
    /\ UNCHANGED <<livenessVars, otherVars>>

\* the click handler of register, lines 74-80: an empty name field is
\* refused, else the handler awaits detectFace()
RegisterClick(r, name) ==
    /\ registerPc[r] = "idle"
    /\ \A q \in Registers : q < r => registerPc[q] # "idle"
    /\ IF name = ""
       THEN /\ registerPc' = [registerPc EXCEPT ![r] = "done"]
            /\ UNCHANGED registerRow
       ELSE /\ registerPc' = [registerPc EXCEPT ![r] = "detecting"]
            /\ registerRow' = [registerRow EXCEPT ![r] = Student(name, Null)]
    /\ UNCHANGED <<students, attendance, startPc, startRows,
                   labeledFaceDescriptors, recognizePc, recognizeLabel,
                   registerRows, inserted, recognizeAlert, clickedEarly, galleryAssigned,
                   selectFailed>>
    /\ UNCHANGED <<livenessVars, otherVars>>

\* lines 80-86: detectFace answers with a descriptor <<d>>, and the handler
\* sends the insert, or with null, and the handler returns
RegisterDetectFaceReturns(r, faceDescriptor) ==
    /\ registerPc[r] = "detecting"
    /\ IF faceDescriptor # Null
       THEN /\ registerPc' = [registerPc EXCEPT ![r] = "inserting"]
            /\ registerRow' = [registerRow EXCEPT ![r] =
                  Student(@.name, faceDescriptor[1])]
       ELSE /\ registerPc' = [registerPc EXCEPT ![r] = "done"]
            /\ UNCHANGED registerRow
    /\ UNCHANGED <<students, attendance, startPc, startRows,
                   labeledFaceDescriptors, recognizePc, recognizeLabel,
                   registerRows, inserted, recognizeAlert, clickedEarly, galleryAssigned,
                   selectFailed>>
    /\ UNCHANGED <<livenessVars, otherVars>>

\* detectFace throws: the handler ends with that exception
RegisterDetectFaceThrows(r) ==
    /\ registerPc[r] = "detecting"
    /\ registerPc' = [registerPc EXCEPT ![r] = "failed"]
    /\ UNCHANGED <<students, attendance, startPc, startRows,
                   labeledFaceDescriptors, recognizePc, recognizeLabel,
                   registerRow, registerRows, inserted, recognizeAlert, clickedEarly,
                   galleryAssigned, selectFailed>>
    /\ UNCHANGED <<livenessVars, otherVars>>

\* lines 82-95: the insert fails and the handler alerts and returns, or it
\* succeeds and the handler calls loadLabeledImages, which sends its select
RegisterInsertReturns(r, ok) ==
    /\ registerPc[r] = "inserting"
    /\ IF ok
       THEN /\ students' = Append(students, registerRow[r])
            /\ inserted' = inserted \cup {registerRow[r].name}
            /\ registerPc' = [registerPc EXCEPT ![r] = "querying"]
       ELSE /\ registerPc' = [registerPc EXCEPT ![r] = "done"]
            /\ UNCHANGED <<students, inserted>>
    /\ UNCHANGED <<attendance, startPc, startRows, labeledFaceDescriptors,
                   recognizePc, recognizeLabel, registerRow, registerRows,
                   recognizeAlert, clickedEarly, galleryAssigned, selectFailed>>
    /\ UNCHANGED <<livenessVars, otherVars>>

\* the database answers the select of the reload: the rows, or an error,
\* for which loadLabeledImages returns []
RegisterSelectExecutes(r, ok) ==
    /\ registerPc[r] = "querying"
    /\ registerPc' = [registerPc EXCEPT ![r] = "fetched"]
    /\ registerRows' = [registerRows EXCEPT ![r] = IF ok THEN students ELSE <<>>]
    /\ selectFailed' = (selectFailed \/ ~ok)
    /\ UNCHANGED <<students, attendance, startPc, startRows,
                   labeledFaceDescriptors, recognizePc, recognizeLabel,
                   registerRow, inserted, recognizeAlert, clickedEarly, galleryAssigned>>
    /\ UNCHANGED <<livenessVars, otherVars>>

\* line 94: labeledFaceDescriptors = await loadLabeledImages()
RegisterSelectReturns(r) ==
    /\ registerPc[r] = "fetched"
    /\ registerPc' = [registerPc EXCEPT ![r] = "done"]
    /\ labeledFaceDescriptors' = LabeledImages(registerRows[r])
    /\ galleryAssigned' = TRUE
    /\ UNCHANGED <<students, attendance, startPc, startRows, recognizePc,
                   recognizeLabel, registerRow, registerRows, inserted,
                   recognizeAlert, clickedEarly, selectFailed>>
    /\ UNCHANGED <<livenessVars, otherVars>>

InitApp == LivenessInit /\ OtherInit /\ \E table \in StudentTables : AppInitWith(table)

\* the page never calls verifyLiveness: no action of the liveness module is
\* among its steps
NextApp ==
    \/ StartSetupDone
    \/ \E ok \in BOOLEAN : StartSelectExecutes(ok)
    \/ StartSelectReturns
    \/ \E c \in Clicks : RecognizeClick(c)
    \/ \E c \in Clicks, q \in {Null} \cup {<<d>> : d \in QueryDescriptors} :
          DetectFaceReturns(c, q)
    \/ \E c \in Clicks : DetectFaceThrows(c)
    \/ \E c \in Clicks, ok \in BOOLEAN : markAttendance(c, ok)
    \/ \E r \in Registers, name \in RegisterNames : RegisterClick(r, name)
    \/ \E r \in Registers, q \in {Null} \cup {<<d>> : d \in RegisterDescriptors} :
          RegisterDetectFaceReturns(r, q)
    \/ \E r \in Registers : RegisterDetectFaceThrows(r)
    \/ \E r \in Registers, ok \in BOOLEAN : RegisterInsertReturns(r, ok)
    \/ \E r \in Registers, ok \in BOOLEAN : RegisterSelectExecutes(r, ok)
    \/ \E r \in Registers : RegisterSelectReturns(r)

SpecApp == InitApp /\ [][NextApp]_vars

(***************************************************************************)
(* Scenario A: one session of 300 frames, a face on every frame, the eyes  *)
(* closed exactly at frames 5, 10, ..., 50, the face 20 px further right   *)
(* on frame 101 than on frame 100 and never more than 10 px away from its  *)
(* place on the frame before otherwise.  The session starts in any state   *)
(* an earlier attempt may have left behind.                                *)
(***************************************************************************)
ScenarioABoxes(i) ==
    IF i < 100 THEN {BoxA, BoxB}
    ELSE IF i = 100 THEN {BoxB}
    ELSE IF i = 101 THEN {BoxC}
    ELSE {BoxC, BoxD}

ScenarioALandmarks(i) ==
    IF i % 5 = 0 /\ 5 <= i /\ i <= 50 THEN {ClosedEyes} ELSE {OpenEyes, HalfEyes}

ScenarioADetections(i) ==
    {Face(b, lm) : b \in ScenarioABoxes(i), lm \in ScenarioALandmarks(i)}

InitA ==
    /\ blinkCount \in {0, 3}
    /\ headMovementDetected \in BOOLEAN
    /\ lastFacePosition \in {Null, CurrentPosition(BoxA), CurrentPosition(BoxD)}
    /\ blinkDetectionActive = FALSE
    /\ pc = [s \in Sessions |-> "idle"]
    /\ frameCount = [s \in Sessions |-> 0]
    /\ verdict = [s \in Sessions |-> Null]
    /\ detectorQueue = <<>>
    /\ animationFrameQueue = <<>>
    /\ cameraLost = FALSE
    /\ stopped = [s \in Sessions |-> FALSE]
    /\ seen = [s \in Sessions |-> FALSE]
    /\ stopSnap = [s \in Sessions |-> Null]
    /\ livenessPassed = FALSE
    /\ AppInitWith(<<>>)
    /\ OtherInit

NextA ==
    \/ verifyLiveness(1)
    \/ detectLiveness(1)
    \/ \E det \in ScenarioADetections(frameCount[1]) : DetectionReturns(1, det)
    \/ PromiseSettles(1)

SpecA == InitA /\ [][NextA]_vars

(***************************************************************************)
(* Camera loss: one session, and a detector that may stop answering for    *)
(* good at any moment.  The browser runs every scheduled callback and      *)
(* every promise continuation, and the detector answers every call made    *)
(* while the camera is there.                                              *)
(***************************************************************************)
CameraLoss ==
    /\ ~cameraLost
    /\ ~MicrotaskPending
    /\ cameraLost' = TRUE
    /\ UNCHANGED <<blinkCount, headMovementDetected, lastFacePosition,
                   blinkDetectionActive, pc, frameCount, verdict, detectorQueue,
                   animationFrameQueue, stopped, seen, stopSnap, livenessPassed>>
    /\ UNCHANGED <<appVars, otherVars>>

DetectorAnswers(s) == \E det \in Offered : DetectionReturns(s, det)

NextLoss ==
    \/ verifyLiveness(1)
    \/ detectLiveness(1)
    \/ DetectorAnswers(1)
    \/ PromiseSettles(1)
    \/ CameraLoss

SpecLoss ==
    /\ Init
    /\ [][NextLoss]_vars
    /\ WF_vars(detectLiveness(1))
    /\ WF_vars(DetectorAnswers(1))
    /\ WF_vars(PromiseSettles(1))

(***************************************************************************)
(* The spoof scorer alone: callers call detectSpoofing with any face box   *)
(* and any video, in a page where verifyLiveness or an earlier call may    *)
(* have left a face centre behind.                                         *)
(***************************************************************************)
\* a face too small for the frame, and the same face 5, 30 and 50 px further
\* right
SmallA == Box(100, 100, 100, 100)
SmallB == Box(105, 100, 100, 100)
SmallC == Box(130, 100, 100, 100)
SmallD == Box(150, 100, 100, 100)
\* a face that fills the frame of PageVideo
LargeBox == Box(10, 30, 700, 500)
\* faces of exactly 0.05 and exactly 0.4 of the frame of PageVideo
EdgeLow == Box(0, 0, 144, 140)
EdgeHigh == Box(0, 0, 448, 360)

SpoofBoxes == {BoxA, BoxC, SmallA, SmallB, SmallC, SmallD, LargeBox, EdgeLow, EdgeHigh}

\* the detection argument: null, or a detection
SpoofDetections == {NoFace} \cup {Face(b, OpenEyes) : b \in SpoofBoxes}

\* the video argument: null, the video of the page, or a video whose
\* metadata is not loaded (videoWidth = videoHeight = 0)
SpoofVideos == {Null, PageVideo, Video(0, 0)}

\* one call of detectSpoofing whose caller keeps the verdict
SpoofCheck(detection, video) ==
    /\ detectSpoofing(detection, video)
    /\ UNCHANGED <<authVars, notificationVars>>
    /\ spoofCalls' =
          <<[detection |-> detection, video |-> video,
             previous |-> lastFacePosition,
             verdict |-> SpoofVerdict(detection, video, lastFacePosition)]>>
          \o SubSeq(spoofCalls, 1, IF Len(spoofCalls) = 0 THEN 0 ELSE 1)

InitSpoof ==
    /\ blinkCount = 0
    /\ headMovementDetected = FALSE
    /\ lastFacePosition \in {Null, CurrentPosition(BoxA), CurrentPosition(SmallB)}
    /\ blinkDetectionActive = FALSE
    /\ pc = [s \in Sessions |-> "idle"]
    /\ frameCount = [s \in Sessions |-> 0]
    /\ verdict = [s \in Sessions |-> Null]
    /\ detectorQueue = <<>>
    /\ animationFrameQueue = <<>>
    /\ cameraLost = FALSE
    /\ stopped = [s \in Sessions |-> FALSE]
    /\ seen = [s \in Sessions |-> FALSE]
    /\ stopSnap = [s \in Sessions |-> Null]
    /\ livenessPassed = FALSE
    /\ AppInitWith(<<>>)
    /\ OtherInit

NextSpoof == \E detection \in SpoofDetections, video \in SpoofVideos :
                SpoofCheck(detection, video)

SpecSpoof == InitSpoof /\ [][NextSpoof]_vars

(***************************************************************************)
(* Authentication and role helpers, src/unnamed/part_000 lines 1-88.  A    *)
(* role is a string; a role that is null, undefined or "" is "" here: all  *)
(* three are falsy at lines 26 and 40.                                     *)
(***************************************************************************)
ROLES == [ADMIN |-> "admin", STAFF |-> "staff", STUDENT |-> "student"]

\* what a profile row or the user metadata may hold as the role
RoleValues == {"", "admin", "staff", "student", "guest"}

\* the session of the browser: none, or one whose user_metadata has a role
AuthSessions == {Null} \cup {[user_metadata_role |-> m] : m \in RoleValues}

\* the requiredRoles argument: null, one role, or an array of roles
NoRoles == [kind |-> "null", role |-> "", roles |-> <<>>]
RoleString(r) == [kind |-> "string", role |-> r, roles |-> <<>>]
RoleArray(rs) == [kind |-> "array", role |-> "", roles |-> rs]

RequireAuthArguments ==
    {NoRoles, RoleString("admin"), RoleString("student"),
     RoleArray(<<"admin", "staff">>), RoleArray(<<>>)}

AuthCalls ==
    {[fn |-> "requireAuth", requiredRoles |-> a] : a \in RequireAuthArguments}
    \cup {[fn |-> f, requiredRoles |-> NoRoles] : f \in {"isAdmin", "isStaff", "isStudent"}}

\* what the profiles query of lines 20-24 gives: an exception, no data (no
\* row, or an error result), or the row with its role
ProfileAnswers ==
    {[kind |-> "throws", role |-> ""], [kind |-> "none", role |-> ""]}
    \cup {[kind |-> "row", role |-> r] : r \in RoleValues}

SessionRead(sess) ==
    IF sess = Null THEN [kind |-> "null", role |-> ""]
    ELSE [kind |-> "session", role |-> sess.user_metadata_role]

\* line 26: profile?.role || session.user.user_metadata?.role || null, and
\* line 29: null after an exception
getUserRole(profile, sess) ==
    IF profile.kind = "throws" THEN ""
    ELSE IF profile.kind = "row" /\ profile.role # "" THEN profile.role
    ELSE sess.user_metadata_role

\* line 42: Array.isArray(requiredRoles) ? requiredRoles : [requiredRoles]
RolesOf(requiredRoles) ==
    IF requiredRoles.kind = "array" THEN requiredRoles.roles
    ELSE <<requiredRoles.role>>

\* Array.prototype.includes
includes(roles, role) == \E i \in 1..Len(roles) : roles[i] = role

\* lines 39-43, with userRole the value getUserRole returned
hasRoleMut(userRole, requiredRoles) ==
    userRole = "" \/ includes(RolesOf(requiredRoles), userRole)
hasRole(userRole, requiredRoles) ==
    userRole # "" /\ includes(RolesOf(requiredRoles), userRole)

\* the argument with which the call reaches hasRole, lines 58 and 72-88
HasRoleArgument(call) ==
    IF call.fn = "isAdmin" THEN RoleString(ROLES.ADMIN)
    ELSE IF call.fn = "isStaff" THEN RoleArray(<<ROLES.ADMIN, ROLES.STAFF>>)
    ELSE IF call.fn = "isStudent" THEN RoleString(ROLES.STUDENT)
    ELSE call.requiredRoles

\* a page calls requireAuth(requiredRoles), isAdmin(), isStaff() or
\* isStudent(): the call suspends at its first getSession (line 51 for
\* requireAuth, line 16 through hasRole and getUserRole for the others)
AuthCalled(call) ==
    /\ authPc = "idle"
    /\ authCall' = call
    /\ authPc' = IF call.fn = "requireAuth" THEN "requireAuth:getSession"
                 ELSE "getUserRole:getSession"
    /\ UNCHANGED <<session, location, authSession, authResult, authSeen>>
    /\ UNCHANGED <<livenessVars, appVars, spoofCalls, notificationVars>>

\* hasRole has returned has: lines 59-66 for requireAuth, the value itself
\* for isAdmin, isStaff and isStudent
HasRoleReturns(has) ==
    /\ authPc' = "returned"
    /\ IF authCall.fn = "requireAuth" /\ ~has
       THEN /\ location' = "/index.html"
            /\ authResult' = <<FALSE>>
       ELSE /\ authResult' = <<has>>
            /\ UNCHANGED location

\* lines 51-66: getSession answers requireAuth
RequireAuthSessionReturns ==
    /\ authPc = "requireAuth:getSession"
    /\ authSeen' = [authSeen EXCEPT !.session1 = SessionRead(session)]
    /\ IF session = Null
       THEN /\ location' = "/index.html"
            /\ authResult' = <<FALSE>>
            /\ authPc' = "returned"
       ELSE IF authCall.requiredRoles.kind # "null"
            THEN /\ authPc' = "getUserRole:getSession"
                 /\ UNCHANGED <<location, authResult>>
            ELSE /\ authResult' = <<TRUE>>
                 /\ authPc' = "returned"
                 /\ UNCHANGED location
    /\ UNCHANGED <<session, authCall, authSession>>
    /\ UNCHANGED <<livenessVars, appVars, spoofCalls, notificationVars>>

\* lines 16-24: getSession answers getUserRole; without a session the role
\* is null, else the profiles query is sent
GetUserRoleSessionReturns ==
    /\ authPc = "getUserRole:getSession"
    /\ authSeen' = [authSeen EXCEPT !.session2 = SessionRead(session)]
    /\ IF session = Null
       THEN /\ HasRoleReturns(hasRole("", HasRoleArgument(authCall)))
            /\ UNCHANGED authSession
       ELSE /\ authPc' = "getUserRole:profile"
            /\ authSession' = session
            /\ UNCHANGED <<location, authResult>>
    /\ UNCHANGED <<session, authCall>>
    /\ UNCHANGED <<livenessVars, appVars, spoofCalls, notificationVars>>

\* lines 16 and 27-30: getSession throws, getUserRole returns null
GetUserRoleSessionThrows ==
    /\ authPc = "getUserRole:getSession"
    /\ authSeen' = [authSeen EXCEPT !.session2 = [kind |-> "throws", role |-> ""]]
    /\ HasRoleReturns(hasRole("", HasRoleArgument(authCall)))
    /\ UNCHANGED <<session, authCall, authSession>>
    /\ UNCHANGED <<livenessVars, appVars, spoofCalls, notificationVars>>

\* lines 20-30 and 39-43: the profiles query answers
GetUserRoleProfileReturns(profile) ==
    /\ authPc = "getUserRole:profile"
    /\ authSeen' = [authSeen EXCEPT !.profile = profile]
    /\ HasRoleReturns(hasRole(getUserRole(profile, authSession),
                              HasRoleArgument(authCall)))
    /\ UNCHANGED <<session, authCall, authSession>>
    /\ UNCHANGED <<livenessVars, appVars, spoofCalls, notificationVars>>

\* the session ends while the call is suspended: signOut in another tab, or
\* the refresh token is revoked
SessionEnds ==
    /\ session # Null
    /\ authPc \notin {"idle", "returned"}
    /\ session' = Null
    /\ UNCHANGED <<location, authPc, authCall, authSession, authResult, authSeen>>
    /\ UNCHANGED <<livenessVars, appVars, spoofCalls, notificationVars>>

InitAuth ==
    /\ LivenessInit
    /\ AppInitWith(<<>>)
    /\ SpoofInit
    /\ NotificationInit
    /\ \E sess \in AuthSessions : AuthInitWith(sess)

NextAuth ==
    \/ \E call \in AuthCalls : AuthCalled(call)
    \/ RequireAuthSessionReturns
    \/ GetUserRoleSessionReturns
    \/ GetUserRoleSessionThrows
    \/ \E profile \in ProfileAnswers : GetUserRoleProfileReturns(profile)
    \/ SessionEnds

SpecAuth == InitAuth /\ [][NextAuth]_vars

(***************************************************************************)
(* Notifications, src/unnamed/part_001 lines 1-113.  An attendance         *)
(* percentage is kept in tenths of a percent.                              *)
(***************************************************************************)
\* attendancePercentage, in tenths: 0, 50, 74.9, 75, 75.1 and 100
Percentages == {0, 500, 749, 750, 751, 1000}
\* the email and phoneNumber arguments; "" stands for a missing one (null,
\* undefined and "" are all falsy at lines 101 and 105)
Emails == {"", "parent@example.com"}
PhoneNumbers == {"", "+15550100"}

NotifyCalls ==
    {[attendancePercentage |-> p, email |-> e, phoneNumber |-> n] :
        p \in Percentages, e \in Emails, n \in PhoneNumbers}

\* what an insert into notifications gives: the row is stored, an error
\* result, or an exception
InsertOutcomes == {"ok", "error", "throws"}

\* the rows of lines 16-22 and 50-56
NotificationRow(type, recipient) ==
    [type |-> type, recipient |-> recipient, status |-> "pending"]

\* the notifications table when the call is made
NotificationTables == {<<>>, <<NotificationRow("sms", "+15550199")>>}

\* line 85: attendancePercentage < THRESHOLD
LowAttendanceMut(percentage) == percentage <= 10 * THRESHOLD
LowAttendance(percentage) == percentage < 10 * THRESHOLD

\* lines 82-112 up to the first await: above the threshold the call returns
\* false; below it, it sends the insert of sendEmailNotification if an
\* email is given, else that of sendSMSAlert if a phone number is given,
\* else it returns true
checkAndNotifyLowAttendance(call) ==
    /\ notifyPc = "idle"
    /\ notifyCall' = call
    /\ IF LowAttendance(call.attendancePercentage)
       THEN IF call.email # ""
            THEN notifyPc' = "sendEmailNotification" /\ UNCHANGED notifyResult
            ELSE IF call.phoneNumber # ""
                 THEN notifyPc' = "sendSMSAlert" /\ UNCHANGED notifyResult
                 ELSE notifyPc' = "returned" /\ notifyResult' = <<TRUE>>
       ELSE notifyPc' = "returned" /\ notifyResult' = <<FALSE>>
    /\ UNCHANGED <<notifications, notifyAttempts>>
    /\ UNCHANGED <<livenessVars, appVars, spoofCalls, authVars>>

\* lines 14-38 and 105-109: the insert of sendEmailNotification answers;
\* whatever sendEmailNotification returns is dropped, and the call goes on
\* to sendSMSAlert if a phone number is given, else it returns true
sendEmailNotification(outcome) ==
    /\ notifyPc = "sendEmailNotification"
    /\ notifications' =
          IF outcome = "ok"
          THEN Append(notifications, NotificationRow("email", notifyCall.email))
          ELSE notifications
    /\ notifyAttempts' = Append(notifyAttempts, [type |-> "email", outcome |-> outcome])
    /\ IF notifyCall.phoneNumber # ""
       THEN notifyPc' = "sendSMSAlert" /\ UNCHANGED notifyResult
       ELSE notifyPc' = "returned" /\ notifyResult' = <<TRUE>>
    /\ UNCHANGED notifyCall
    /\ UNCHANGED <<livenessVars, appVars, spoofCalls, authVars>>

\* lines 48-71 and 109: the insert of sendSMSAlert answers, and the call
\* returns true
sendSMSAlert(outcome) ==
    /\ notifyPc = "sendSMSAlert"
    /\ notifications' =
          IF outcome = "ok"
          THEN Append(notifications, NotificationRow("sms", notifyCall.phoneNumber))
          ELSE notifications
    /\ notifyAttempts' = Append(notifyAttempts, [type |-> "sms", outcome |-> outcome])
    /\ notifyPc' = "returned"
    /\ notifyResult' = <<TRUE>>
    /\ UNCHANGED notifyCall
    /\ UNCHANGED <<livenessVars, appVars, spoofCalls, authVars>>

InitNotify ==
    /\ LivenessInit
    /\ AppInitWith(<<>>)
    /\ SpoofInit
    /\ AuthInitWith(Null)
    /\ notifications \in NotificationTables
    /\ notifyPc = "idle"
    /\ notifyCall = Null
    /\ notifyResult = Null
    /\ notifyAttempts = <<>>

NextNotify ==
    \/ \E call \in NotifyCalls : checkAndNotifyLowAttendance(call)
    \/ \E outcome \in InsertOutcomes : sendEmailNotification(outcome)
    \/ \E outcome \in InsertOutcomes : sendSMSAlert(outcome)

SpecNotify == InitNotify /\ [][NextNotify]_vars

(***************************************************************************)
(* The claims                                                              *)
(***************************************************************************)
Resolved(s) == pc[s] = "resolved"

\* C1: a verdict has success = true only with blinks >= 2 and
\* headMovement = true, whatever the frames and whenever the session was
\* stopped.
C1_SuccessNeedsBlinksAndMovement ==
    \A s \in Sessions :
        Resolved(s) /\ verdict[s][1].success =>
            verdict[s][1].blinks >= 2 /\ verdict[s][1].headMovement

\* C1, witness: a stopped session resolves with success = true.
C1_Witness ==
    \E s \in Sessions : Resolved(s) /\ verdict[s][1].success /\ stopped[s]

\* C2: attendance is recorded (markAttendance is called for a recognised
\* label) only after a liveness session has completed with success = true.
C2_AttendanceOnlyAfterLiveness ==
    (attendance # <<>> \/ \E c \in Clicks : recognizePc[c] = "marking")
        => livenessPassed

\* C3: from a stop request on, no frame changes blinkCount,
\* headMovementDetected or the last face centre, and the verdict reports the
\* counters held at the stop request.
C3_StopFreezesCounters ==
    \A s \in Sessions :
        stopSnap[s] # Null =>
            /\ Counters = stopSnap[s][1]
            /\ Resolved(s) =>
                  /\ verdict[s][1].blinks = stopSnap[s][1][1]
                  /\ verdict[s][1].headMovement = stopSnap[s][1][2]

\* C4: a verifyLiveness call made while a session is active is rejected: it
\* starts no session and leaves blinkCount, headMovementDetected, the active
\* flag and the frame counts alone, so at most one session is active at a
\* time.
C4_SecondStartRejected ==
    [][(\E t \in Sessions : Unresolved(t))
          /\ (\E s \in Sessions : pc[s] = "idle" /\ pc'[s] # "idle")
       => FALSE]_vars

\* C5: while a session is running, blinkCount never decreases and
\* headMovementDetected is never cleared.
C5_CountersMonotonic ==
    [][\A s \in Sessions :
          Unresolved(s) /\ pc'[s] \in {"awaiting", "scheduled", "resolved"} =>
              /\ blinkCount' >= blinkCount
              /\ headMovementDetected => headMovementDetected'
      ]_vars

\* C6: the first frame with a detection in a session never sets
\* headMovementDetected, whatever face position was seen before the session.
C6_FirstDetectionSetsNoMovement ==
    [][\A s \in Sessions :
          pc[s] = "awaiting" /\ ~seen[s] /\ seen'[s] =>
              headMovementDetected' = headMovementDetected
      ]_vars

\* C7: a session resolves after at most 300 frames, and a session that was
\* never cancelled resolves after exactly 300 frames.
C7_ResolvesAfterMaxFrames ==
    \A s \in Sessions :
        Resolved(s) =>
            /\ frameCount[s] <= 300
            /\ ~stopped[s] => frameCount[s] = 300

\* C8: when the detector stops answering, the session still terminates.
C8_TerminatesAfterCameraLoss ==
    (cameraLost /\ Unresolved(1)) ~> ~Unresolved(1)

\* C9: in every state of a session, blinkCount <= floor(frameCount / 5).
C9_BlinkCountBoundedByFrames ==
    \A s \in Sessions :
        Unresolved(s) \/ Resolved(s) => blinkCount <= frameCount[s] \div 5

\* C10 as stated: scenario A resolves with
\* {success: true, blinks: 2, headMovement: true}.
C10_ScenarioAVerdictAsStated ==
    Resolved(1) =>
        verdict[1][1] = [success |-> TRUE, blinks |-> 2, headMovement |-> TRUE]

\* C10 as amended: scenario A resolves after 300 frames with
\* {success: true, blinks: 10, headMovement: true}: each of the ten frames
\* 5, 10, ..., 50 is a multiple of 5 and counts.
C10_ScenarioAVerdict ==
    Resolved(1) =>
        /\ frameCount[1] = 300
        /\ verdict[1][1] = [success |-> TRUE, blinks |-> 10, headMovement |-> TRUE]

\* C10, witness: scenario A has run its 300 frames and resolved.
C10_Witness == Resolved(1) /\ frameCount[1] = 300 /\ verdict[1][1].blinks = 10

\* C12: a frame on which the detector finds no face, or throws, leaves
\* blinkCount, headMovementDetected and the last face centre unchanged; the
\* frame was counted when it began (every frame that begins adds exactly 1
\* to frameCount, before its detection is known) and the count stays; the
\* next callback of the session is scheduled.
C12_FrameWithoutDetectionSkipped ==
    [][/\ \A s \in Sessions :
             pc[s] # "awaiting" /\ pc'[s] = "awaiting" =>
                 frameCount'[s] = frameCount[s] + 1
       /\ \A s \in Sessions, det \in {NoFace, Throws} :
             DetectionReturns(s, det) =>
                 /\ UNCHANGED <<blinkCount, headMovementDetected, lastFacePosition>>
                 /\ frameCount'[s] = frameCount[s]
                 /\ frameCount'[s] >= 1
                 /\ pc'[s] = "scheduled"
                 /\ \E k \in 1..Len(animationFrameQueue') : animationFrameQueue'[k] = s
      ]_vars

\* C12, witness: a session has had three frames, none with a detection,
\* after an earlier use of the module left a face centre behind, and its
\* next callback is scheduled.
C12_Witness ==
    \E s \in Sessions :
        /\ pc[s] = "scheduled"
        /\ ~seen[s]
        /\ frameCount[s] = 3
        /\ lastFacePosition # Null

\* the detections whose landmark set is missing or has an eye of fewer than
\* 6 points
MalformedDetections == {Face(b, lm) : b \in Boxes, lm \in {ShortEyes, Null}}

\* C13: a frame whose detection has malformed landmarks is treated as a
\* frame without detection: it changes neither blinkCount nor
\* headMovementDetected nor the last face centre, and the next callback of
\* the session is scheduled.
C13_MalformedLandmarksSkipped ==
    [][\A s \in Sessions, det \in MalformedDetections :
          DetectionReturns(s, det) =>
              /\ UNCHANGED <<blinkCount, headMovementDetected, lastFacePosition>>
              /\ pc'[s] = "scheduled"
      ]_vars

GalleryLabels ==
    {labeledFaceDescriptors[i].label : i \in 1..Len(labeledFaceDescriptors)}

Quiescent ==
    /\ startPc = "ready"
    /\ \A r \in Registers : registerPc[r] \in {"idle", "done", "failed"}

\* C17: once start() and every register handler have finished, and no select
\* has failed, the gallery holds every name whose registration insert
\* succeeded.
C17_GalleryHasEveryRegisteredLabel ==
    Quiescent /\ ~selectFailed => inserted \subseteq GalleryLabels

\* C18 as stated, last sentence: a click made before start() has finished
\* records nothing.
C18_EarlyClickRecordsNothing ==
    [][\A c \in Clicks :
          clickedEarly[c] /\ recognizePc[c] = "marking" => attendance' = attendance
      ]_vars

\* C18 as amended: attendance changes only by one row, appended by a click
\* in its marking step, which ends the click for good; a click marks only
\* when detectFace gave it a descriptor, some load had been assigned to the
\* gallery, the gallery was not empty at the match and the best label is not
\* "unknown"; the name is a label of the gallery of that moment.  A click
\* whose detection returns before any load was assigned records nothing.
C18_AttendanceOncePerRecognizedClick ==
    [][/\ attendance' # attendance =>
             \E c \in Clicks :
                 /\ recognizePc[c] = "marking"
                 /\ recognizePc'[c] = "done"
                 /\ attendance' = Append(attendance, [student_name |-> recognizeLabel[c]])
       /\ \A c \in Clicks :
             /\ recognizePc[c] \in {"done", "failed"} => recognizePc'[c] = recognizePc[c]
             /\ recognizePc[c] = "marking" => recognizeLabel'[c] = recognizeLabel[c]
             /\ recognizePc[c] # "marking" /\ recognizePc'[c] = "marking" =>
                   /\ \E d \in QueryDescriptors : DetectFaceReturns(c, <<d>>)
                   /\ galleryAssigned
                   /\ Len(labeledFaceDescriptors) > 0
                   /\ recognizeLabel'[c] # "unknown"
                   /\ recognizeLabel'[c] \in GalleryLabels
      ]_vars

\* C18, witness: a click made before start() had finished has recorded
\* attendance for a label of the gallery.
C18_Witness ==
    \E c \in Clicks :
        /\ clickedEarly[c]
        /\ recognizePc[c] = "done"
        /\ attendance = <<[student_name |-> recognizeLabel[c]]>>
        /\ recognizeLabel[c] \in GalleryLabels

\* the calls of detectSpoofing on record that got as far as scoring
ScoredCalls == {i \in 1..Len(spoofCalls) : spoofCalls[i].verdict.details # Null}

FaceArea(call) == call.detection.box.width * call.detection.box.height
FrameArea(call) == call.video.videoWidth * call.video.videoHeight

\* C11: two calls of detectSpoofing with the same detection and the same
\* video return the same verdict, whatever calls were made before them.
C11_SameArgumentsSameVerdict ==
    Len(spoofCalls) = 2
    /\ spoofCalls[1].detection = spoofCalls[2].detection
    /\ spoofCalls[1].video = spoofCalls[2].video
        => spoofCalls[1].verdict = spoofCalls[2].verdict

\* C15: sizeConsistency is true exactly when 20 * faceArea > frameArea and
\* 5 * faceArea < 2 * frameArea, i.e. when faceRatio is strictly inside
\* (0.05, 0.4); at 0.05 and at 0.4 exactly it is false.
C15_SizeConsistencyOpenInterval ==
    \A i \in ScoredCalls :
        LET call == spoofCalls[i]
            sizeConsistency == call.verdict.details.sizeConsistency
        IN  /\ sizeConsistency <=>
                  /\ 20 * FaceArea(call) > FrameArea(call)
                  /\ 5 * FaceArea(call) < 2 * FrameArea(call)
            /\ 20 * FaceArea(call) = FrameArea(call) => ~sizeConsistency
            /\ 5 * FaceArea(call) = 2 * FrameArea(call) => ~sizeConsistency

\* C15, witness: the last two calls scored a face of exactly 0.05 and a face
\* of exactly 0.4 of the frame, and one call scored a face inside the
\* interval.
C15_Witness ==
    /\ Len(spoofCalls) = 2
    /\ ScoredCalls = {1, 2}
    /\ FrameArea(spoofCalls[1]) > 0
    /\ 20 * FaceArea(spoofCalls[1]) = FrameArea(spoofCalls[1])
    /\ 5 * FaceArea(spoofCalls[2]) = 2 * FrameArea(spoofCalls[2])
    /\ ~spoofCalls[1].verdict.details.sizeConsistency
    /\ ~spoofCalls[2].verdict.details.sizeConsistency

\* the movement of a scored call, against the centre the call found, is
\* strictly inside (5, 50) px; centres are in half-pixels
MovementInBand(call) ==
    /\ Movement2(CurrentPosition(call.detection.box), call.previous) > 100
    /\ Movement2(CurrentPosition(call.detection.box), call.previous) < 10000

\* C16: confidence is base * (1 - positionStability * 0.3), base 0.2 for a
\* consistent size and 0.6 otherwise, positionStability 1 without a previous
\* centre, 0.8 for a movement strictly inside (5, 50) and 0.3 otherwise;
\* isSpoofed is confidence > 0.5, which is the case exactly when the size is
\* inconsistent, a previous centre exists and the movement is outside
\* (5, 50); confidence is within [0, 1].
C16_ScoringRule ==
    \A i \in 1..Len(spoofCalls) :
        LET call == spoofCalls[i]
            v == call.verdict
        IN  /\ v.confidence >= 0 /\ v.confidence <= 1000
            /\ v.isSpoofed <=> v.confidence > 500
            /\ call.previous = Null => ~v.isSpoofed
            /\ i \notin ScoredCalls => ~v.isSpoofed /\ v.confidence = 0
            /\ i \in ScoredCalls =>
                  /\ v.details.positionStability =
                        IF call.previous = Null THEN 10
                        ELSE IF MovementInBand(call) THEN 8 ELSE 3
                  /\ v.confidence * 100 =
                        (IF v.details.sizeConsistency THEN 200 ELSE 600)
                           * (100 - 3 * v.details.positionStability)
                  /\ v.isSpoofed <=>
                        /\ ~v.details.sizeConsistency
                        /\ call.previous # Null
                        /\ ~MovementInBand(call)

\* C16, witness: a face too small for the frame that moved by exactly 5 px
\* is flagged, with confidence 0.546, and the call before it, whose movement
\* was inside the band, was not.
C16_Witness ==
    /\ Len(spoofCalls) = 2
    /\ spoofCalls[1].verdict.isSpoofed
    /\ spoofCalls[1].verdict.confidence = 546
    /\ Movement2(CurrentPosition(spoofCalls[1].detection.box), spoofCalls[1].previous) = 100
    /\ ~spoofCalls[2].verdict.isSpoofed
    /\ spoofCalls[2].verdict.confidence = 456

\* the role the answers on record give the user: the role of the profile
\* row, else the role of the metadata of the session getUserRole read
SeenRole ==
    IF authSeen.profile.kind = "row" /\ authSeen.profile.role # ""
    THEN authSeen.profile.role
    ELSE authSeen.session2.role

\* getUserRole found a session, its profiles query did not throw, and the
\* role they give is one of the given roles
SeenRoleIn(roles) ==
    /\ authSeen.session2.kind = "session"
    /\ authSeen.profile.kind \in {"row", "none"}
    /\ SeenRole \in roles

PendingTo(type, recipient) ==
    {i \in 1..Len(notifications) :
        notifications[i] = [type |-> type, recipient |-> recipient, status |-> "pending"]}

\* the inserts of the given type the call has sent, and those that stored
\* their row
Attempts(type) == {i \in 1..Len(notifyAttempts) : notifyAttempts[i].type = type}
Stored(type) == {i \in Attempts(type) : notifyAttempts[i].outcome = "ok"}

\* C20 as stated: the call returns true exactly for a percentage below 75;
\* when it returns false nothing is queued, and when it returns true exactly
\* one pending email is in the table if an email was given and exactly one
\* pending SMS if a phone number was given.
C20_QueuesOnePerContactAsStated ==
    notifyPc = "returned" =>
        /\ notifyResult[1] <=> notifyCall.attendancePercentage < 750
        /\ ~notifyResult[1] => notifyAttempts = <<>>
        /\ notifyResult[1] =>
              /\ notifyCall.email # "" =>
                    Cardinality(PendingTo("email", notifyCall.email)) = 1
              /\ notifyCall.phoneNumber # "" =>
                    Cardinality(PendingTo("sms", notifyCall.phoneNumber)) = 1

\* C20 as amended: the call returns true exactly for a percentage below 75
\* (75 gives false); when it returns false it sends no insert and the table
\* is as it was; when it returns true it has sent exactly one email insert
\* if an email was given (none otherwise) and exactly one SMS insert if a
\* phone number was given (none otherwise), each insert that succeeded has
\* queued exactly one pending row for its recipient and each that failed
\* none, and the result is true whatever the inserts gave.
C20_QueuesOnePerContact ==
    notifyPc = "returned" =>
        /\ notifyResult[1] <=> notifyCall.attendancePercentage < 750
        /\ ~notifyResult[1] => notifyAttempts = <<>> /\ notifications \in NotificationTables
        /\ notifyResult[1] =>
              /\ Cardinality(Attempts("email")) = IF notifyCall.email # "" THEN 1 ELSE 0
              /\ Cardinality(Attempts("sms")) = IF notifyCall.phoneNumber # "" THEN 1 ELSE 0
              /\ Cardinality(PendingTo("email", notifyCall.email))
                    = Cardinality(Stored("email"))
              /\ Cardinality(PendingTo("sms", notifyCall.phoneNumber))
                    = Cardinality(Stored("sms"))
              /\ \E before \in NotificationTables :
                    Len(notifications) = Len(before)
                       + Cardinality(Stored("email")) + Cardinality(Stored("sms"))

\* C20, witness: a call at 74.9 percent with both contacts has returned
\* true, its email insert failed and its SMS is queued.
C20_Witness ==
    /\ notifyPc = "returned"
    /\ notifyCall.attendancePercentage = 749
    /\ notifyResult = <<TRUE>>
    /\ Stored("email") = {}
    /\ Cardinality(Attempts("email")) = 1
    /\ Cardinality(PendingTo("sms", notifyCall.phoneNumber)) = 1

====
